---- MODULE Spec2Model ----
(***************************************************************************)
(* A model of the dual-iso crate: the staged GraphBuilder and the Graph it *)
(* builds (src/src/graph.rs), the sorted-set primitives, the simple and    *)
(* dual simulation and the backtracking search (src/src/iso.rs).           *)
(*                                                                         *)
(* A Rust Vec is a TLA+ sequence; the code's 0-based index i is position   *)
(* i + 1 of the sequence.  A HashMap is a function on its key set; the     *)
(* order in which a HashMap is iterated is not fixed by the code, so every *)
(* iteration takes its order as a permutation of the keys.                 *)
(***************************************************************************)
EXTENDS Integers, Sequences, FiniteSets, TLC

VARIABLES
    \* GraphBuilder (graph.rs 62-67) and the outcome of the last call on it
    node_count, relationship_count, node_labels, adjacency_lists,
    built, last_call,
    \* the sorted-set primitives (iso.rs 147-215): arguments and result
    left, right, set_call,
    \* one query simple_iso / dual_iso (iso.rs 9-27)
    graph, pattern, algo, pc, candidates, sim_result, matches,
    \* the iterations of "while is_updated" the running simulation has made
    passes

vars == << node_count, relationship_count, node_labels, adjacency_lists,
           built, last_call, left, right, set_call,
           graph, pattern, algo, pc, candidates, sim_result, matches,
           passes >>

builder_vars == << node_count, relationship_count, node_labels,
                   adjacency_lists, built, last_call >>
set_vars == << left, right, set_call >>
iso_vars == << graph, pattern, algo, pc, candidates, sim_result, matches,
              passes >>

----------------------------------------------------------------------------
(* Bounds of the model *)

\* values of the sequences handed to the set primitives are 0..MaxVal
MaxVal == 3
\* length of a sequence handed to the set primitives
MaxLen == 3

\* usize::max_value(), the initial value of prev in intersect_sorted.  It is
\* only compared with node ids and never computed with, so the model uses
\* the largest integer TLC represents in its place.
usize_max == 2147483647

Min(a, b) == IF a < b THEN a ELSE b

\* the set of elements of a sequence
Range(s) == { s[k] : k \in 1..Len(s) }

\* ascending (repeats allowed) / strictly ascending sequences
IsAscending(s) == \A k \in 1..(Len(s) - 1) : s[k] <= s[k + 1]
IsStrictlyAscending(s) == \A k \in 1..(Len(s) - 1) : s[k] < s[k + 1]

\* vec![0; n], and resize(n, 0) on an empty Vec: n zeros
RECURSIVE resize(_)
resize(n) == IF n = 0 THEN << >> ELSE Append(resize(n - 1), 0)

\* the Vec of the values f[1], ..., f[n], pushed one after the other
RECURSIVE Pushed(_, _)
Pushed(f, n) == IF n = 0 THEN << >> ELSE Append(Pushed(f, n - 1), f[n])

\* Vec::insert(i, x) with the 0-based index i
VecInsert(s, i, x) == SubSeq(s, 1, i) \o << x >> \o SubSeq(s, i + 1, Len(s))

----------------------------------------------------------------------------
(* Sorted-set primitives, iso.rs 147-215 *)

RECURSIVE do_intersect_loop(_, _, _, _)
do_intersect_loop(l, r, i, j) ==
    IF i < Len(l) /\ j < Len(r)
    THEN IF l[i + 1] < r[j + 1] THEN do_intersect_loop(l, r, i + 1, j)
         ELSE IF l[i + 1] > r[j + 1] THEN do_intersect_loop(l, r, i, j + 1)
         ELSE TRUE
    ELSE FALSE

do_intersect_sorted(l, r) == do_intersect_loop(l, r, 0, 0)

\* the body of the while loop of intersect_sorted; st is the record of the
\* locals intersect, count, i, j, prev
RECURSIVE intersect_loop(_, _, _)
intersect_loop(l, r, st) ==
    IF st.i < Len(l) /\ st.j < Len(r)
    THEN IF l[st.i + 1] < r[st.j + 1]
         THEN intersect_loop(l, r, [st EXCEPT !.i = @ + 1])
         ELSE IF l[st.i + 1] > r[st.j + 1]
         THEN intersect_loop(l, r, [st EXCEPT !.j = @ + 1])
         ELSE IF l[st.i + 1] # st.prev
         THEN intersect_loop(l, r,
                  [ intersect |-> [st.intersect EXCEPT ![st.count + 1] = l[st.i + 1]],
                    count |-> st.count + 1,
                    i |-> st.i + 1,
                    j |-> st.j + 1,
                    prev |-> st.intersect[st.count + 1] ])
         ELSE intersect_loop(l, r, [st EXCEPT !.i = @ + 1, !.j = @ + 1])
    ELSE st

intersect_sorted(l, r) ==
    LET st == intersect_loop(l, r,
                  [ intersect |-> resize(Min(Len(l), Len(r))),
                    count |-> 0, i |-> 0, j |-> 0, prev |-> usize_max ])
    IN  SubSeq(st.intersect, 1, st.count)

\* the first loop of union_into_sorted: m is left.len() as read before the loop
RECURSIVE union_merge_loop(_, _, _, _, _)
union_merge_loop(l, r, i, j, m) ==
    IF i < m /\ j < Len(r)
    THEN IF l[i + 1] < r[j + 1] THEN union_merge_loop(l, r, i + 1, j, m)
         ELSE IF l[i + 1] > r[j + 1]
         THEN union_merge_loop(VecInsert(l, i, r[j + 1]), r, i, j + 1, m)
         ELSE union_merge_loop(l, r, i + 1, j + 1, m)
    ELSE [ left |-> l, j |-> j ]

\* the value of left after union_into_sorted(&mut left, right)
union_into_sorted(l, r) ==
    LET st == union_merge_loop(l, r, 0, 0, Len(l))
    IN  st.left \o SubSeq(r, st.j + 1, Len(r))

----------------------------------------------------------------------------
(* Graph and GraphBuilder, graph.rs *)

\* the label values of the model (the type parameter T)
Labels == {"a", "b"}

\* node ids handed to add_node / add_relationship are 0..MaxNodes-1, and the
\* builder's node_count is capped at MaxNodes
MaxNodes == 3
\* cap of the builder's relationship_count
MaxRels == 1

NodeIds == 0..(MaxNodes - 1)

\* the orders in which a HashMap with key set S can be iterated
IterationOrders(S) ==
    { o \in [1..Cardinality(S) -> S] : Range(o) = S }

\* the keys of S in ascending order
RECURSIVE AscendingOrder(_)
AscendingOrder(S) ==
    IF S = {} THEN << >>
    ELSE LET x == CHOOSE y \in S : \A z \in S : y <= z
         IN  << x >> \o AscendingOrder(S \ {x})

\* list.sort_unstable(): the ascending rearrangement of list
RECURSIVE sort_unstable(_)
sort_unstable(list) ==
    IF list = << >> THEN << >>
    ELSE LET k == CHOOSE k \in 1..Len(list) :
                      \A h \in 1..Len(list) : list[k] <= list[h]
         IN  << list[k] >> \o
             sort_unstable(SubSeq(list, 1, k - 1) \o SubSeq(list, k + 1, Len(list)))

\* build(), first loop: lay the staged adjacency lists out, in the order
\* adj_order of the keys of adjacency_lists; acc holds offsets and lists
RECURSIVE build_lists(_, _, _, _)
build_lists(adj, adj_order, k, acc) ==
    IF k > Len(adj_order) THEN acc
    ELSE LET node_id == adj_order[k]
             list == sort_unstable(adj[node_id])
         IN  build_lists(adj, adj_order, k + 1,
                 [ offsets |-> [acc.offsets EXCEPT ![node_id + 1] = Len(acc.lists)],
                   lists |-> acc.lists \o << Len(list) >> \o list ])

\* build(), second loop: the label index, filled in the order label_order
\* of the keys of node_labels
RECURSIVE build_label_idx(_, _, _, _)
build_label_idx(labels, label_order, k, label_idx) ==
    IF k > Len(label_order) THEN label_idx
    ELSE LET node_id == label_order[k]
             label == labels[node_id]
         IN  build_label_idx(labels, label_order, k + 1,
                 IF label \in DOMAIN label_idx
                 THEN [label_idx EXCEPT ![label] = Append(@, node_id)]
                 ELSE label_idx @@ (label :> << node_id >>))

\* the Graph returned by build() on a builder with the given fields
build(nc, rc, labels, adj, adj_order, label_order) ==
    LET csr == build_lists(adj, adj_order, 1,
                   [ offsets |-> resize(nc), lists |-> << 0 >> ])
    IN  [ node_count |-> nc,
          relationship_count |-> rc,
          node_labels |-> labels,
          label_idx |-> build_label_idx(labels, label_order, 1, << >>),
          offsets |-> csr.offsets,
          lists |-> csr.lists ]

\* Graph::validate_node_id panics
validate_node_id_panics(g, node_id) == node_id >= g.node_count

\* Graph::node_label: panics on an invalid id and on an id without a label
node_label_panics(g, node_id) ==
    validate_node_id_panics(g, node_id) \/ node_id \notin DOMAIN g.node_labels
node_label(g, node_id) == g.node_labels[node_id]

\* Graph::nodes_by_label: label_idx.get(label).unwrap()
nodes_by_label_panics(g, label) == label \notin DOMAIN g.label_idx
nodes_by_label(g, label) == g.label_idx[label]

\* Graph::degree and Graph::neighbors (for a valid node id)
degree(g, node_id) == g.lists[g.offsets[node_id + 1] + 1]
neighbors(g, node_id) ==
    LET offset == g.offsets[node_id + 1]
        deg == g.lists[offset + 1]
    IN  SubSeq(g.lists, offset + 2, offset + 1 + deg)

----------------------------------------------------------------------------
(* The GraphBuilder as a state machine: one action per call.  A panic ends *)
(* the program: no call follows it.                                        *)

\* a HashMap without entries
EmptyMap == << >>

\* the values of the variables a specification does not use
BuilderIdle ==
    /\ node_count = 0
    /\ relationship_count = 0
    /\ node_labels = EmptyMap
    /\ adjacency_lists = EmptyMap
    /\ built = << >>
    /\ last_call = [op |-> "none", panicked |-> FALSE]

SetIdle ==
    /\ left = << >>
    /\ right = << >>
    /\ set_call = [op |-> "none"]

IsoIdle ==
    /\ graph = build(0, 0, EmptyMap, EmptyMap, << >>, << >>)
    /\ pattern = build(0, 0, EmptyMap, EmptyMap, << >>, << >>)
    /\ algo = "none"
    /\ pc = "idle"
    /\ candidates = << >>
    /\ sim_result = FALSE
    /\ matches = << >>
    /\ passes = 0

\* GraphBuilder::new()
BuilderInit ==
    /\ node_count = 0
    /\ relationship_count = 0
    /\ node_labels = EmptyMap
    /\ adjacency_lists = EmptyMap
    /\ built = << >>
    /\ last_call = [op |-> "new", panicked |-> FALSE]
    /\ SetIdle
    /\ IsoIdle

\* the guard of add_node with >= for >
add_node_panics_at_count(count, node_id) == node_id >= count

\* the guard of the panic of add_node
add_node_panics(count, node_id) == node_id > count

\* add_node(node_id, node_label)
AddNode(node_id, label) ==
    /\ ~last_call.panicked
    /\ IF add_node_panics(node_count, node_id)
       THEN /\ last_call' = [op |-> "add_node", node_id |-> node_id,
                             node_label |-> label, panicked |-> TRUE]
            /\ UNCHANGED << node_count, node_labels >>
       ELSE /\ last_call' = [op |-> "add_node", node_id |-> node_id,
                             node_label |-> label, panicked |-> FALSE]
            /\ IF node_id \notin DOMAIN node_labels
               THEN /\ node_count < MaxNodes
                    /\ node_labels' = node_labels @@ (node_id :> label)
                    /\ node_count' = node_count + 1
               ELSE UNCHANGED << node_count, node_labels >>
    /\ UNCHANGED << relationship_count, adjacency_lists, built >>
    /\ UNCHANGED << set_vars, iso_vars >>

\* the guard of the two panics of add_relationship
add_relationship_panics(labels, start_node, end_node) ==
    start_node \notin DOMAIN labels \/ end_node \notin DOMAIN labels

\* add_relationship(start_node, end_node)
AddRelationship(start_node, end_node) ==
    /\ ~last_call.panicked
    /\ IF add_relationship_panics(node_labels, start_node, end_node)
       THEN /\ last_call' = [op |-> "add_relationship", start_node |-> start_node,
                             end_node |-> end_node, panicked |-> TRUE]
            /\ UNCHANGED << relationship_count, adjacency_lists >>
       ELSE /\ relationship_count < MaxRels
            /\ last_call' = [op |-> "add_relationship", start_node |-> start_node,
                             end_node |-> end_node, panicked |-> FALSE]
            /\ adjacency_lists' =
                   IF start_node \in DOMAIN adjacency_lists
                   THEN [adjacency_lists EXCEPT ![start_node] = Append(@, end_node)]
                   ELSE adjacency_lists @@ (start_node :> << end_node >>)
            /\ relationship_count' = relationship_count + 1
    /\ UNCHANGED << node_count, node_labels, built >>
    /\ UNCHANGED << set_vars, iso_vars >>

\* build(): both maps are taken (left empty), the two counts stay
Build ==
    /\ ~last_call.panicked
    /\ \E adj_order \in IterationOrders(DOMAIN adjacency_lists),
          label_order \in IterationOrders(DOMAIN node_labels) :
          built' = << build(node_count, relationship_count, node_labels,
                            adjacency_lists, adj_order, label_order) >>
    /\ adjacency_lists' = EmptyMap
    /\ node_labels' = EmptyMap
    /\ last_call' = [op |-> "build", panicked |-> FALSE]
    /\ UNCHANGED << node_count, relationship_count >>
    /\ UNCHANGED << set_vars, iso_vars >>

BuilderNext ==
    \/ \E node_id \in NodeIds, label \in Labels : AddNode(node_id, label)
    \/ \E start_node \in NodeIds, end_node \in NodeIds :
           AddRelationship(start_node, end_node)
    \/ Build

SpecBuilder == BuilderInit /\ [][BuilderNext]_vars

----------------------------------------------------------------------------
(* The sorted-set primitives as a state machine: the arguments are drawn   *)
(* from the ascending sequences, one action per primitive.                 *)

\* the ascending sequences (repeats allowed) of at most MaxLen values
AscendingSeqs ==
    { s \in UNION { [1..n -> 0..MaxVal] : n \in 0..MaxLen } : IsAscending(s) }

SetInit ==
    /\ left \in AscendingSeqs
    /\ right \in AscendingSeqs
    /\ set_call = [op |-> "none"]
    /\ BuilderIdle
    /\ IsoIdle

CallDoIntersectSorted ==
    /\ set_call.op = "none"
    /\ set_call' = [op |-> "do_intersect_sorted",
                    result |-> do_intersect_sorted(left, right)]
    /\ UNCHANGED << left, right, builder_vars, iso_vars >>

CallIntersectSorted ==
    /\ set_call.op = "none"
    /\ set_call' = [op |-> "intersect_sorted",
                    result |-> intersect_sorted(left, right)]
    /\ UNCHANGED << left, right, builder_vars, iso_vars >>

\* union_into_sorted(&mut left, right): left is the old value, result the new
CallUnionIntoSorted ==
    /\ set_call.op = "none"
    /\ set_call' = [op |-> "union_into_sorted",
                    result |-> union_into_sorted(left, right)]
    /\ UNCHANGED << left, right, builder_vars, iso_vars >>

SetNext ==
    \/ CallDoIntersectSorted
    \/ CallIntersectSorted
    \/ CallUnionIntoSorted

SpecSets == SetInit /\ [][SetNext]_vars

----------------------------------------------------------------------------
(* Simulation and search, iso.rs 29-145 *)

\* the pattern edges (u_p, v_p) in the order of the two nested for loops
RECURSIVE EdgesFrom(_, _)
EdgesFrom(p, u_p) ==
    IF u_p >= p.node_count THEN << >>
    ELSE Pushed([ k \in 1..degree(p, u_p) |-> << u_p, neighbors(p, u_p)[k] >> ],
                degree(p, u_p))
         \o EdgesFrom(p, u_p + 1)

PatternEdges(p) == EdgesFrom(p, 0)

\* init_candidates panics when nodes_by_label or node_label does
init_candidates_panics(g, p) ==
    \E pattern_node_id \in 0..(p.node_count - 1) :
        \/ node_label_panics(p, pattern_node_id)
        \/ nodes_by_label_panics(g, node_label(p, pattern_node_id))

init_candidates(g, p) ==
    Pushed([ k \in 1..p.node_count |-> nodes_by_label(g, node_label(p, k - 1)) ],
           p.node_count)

\* one full pass of the for loops of simple_simulation over the edges from
\* the k-th on; st holds candidates, is_updated and whether the pass has
\* executed "return false"
RECURSIVE simple_pass(_, _, _, _)
simple_pass(g, edges, k, st) ==
    IF k > Len(edges) THEN st
    ELSE LET u_p == edges[k][1]
             v_p == edges[k][2]
             has_edge(u_g) ==
                 do_intersect_sorted(neighbors(g, u_g), st.candidates[v_p + 1])
             u_g_new == SelectSeq(st.candidates[u_p + 1], has_edge)
             updated == st.is_updated \/ Len(u_g_new) < Len(st.candidates[u_p + 1])
         IN  IF u_g_new = << >>
             THEN [ candidates |-> st.candidates, is_updated |-> updated,
                    returned |-> TRUE ]
             ELSE simple_pass(g, edges, k + 1,
                      [ candidates |-> [st.candidates EXCEPT ![u_p + 1] = u_g_new],
                        is_updated |-> updated,
                        returned |-> FALSE ])

\* the loop "for u_g in candidates[u_p]" of dual_simulation from the k-th
\* candidate on; acc holds u_g_new, v_g_new and is_updated
RECURSIVE dual_candidates(_, _, _, _, _)
dual_candidates(g, c_u, c_v, k, acc) ==
    IF k > Len(c_u) THEN acc
    ELSE LET u_g == c_u[k]
             intersect == intersect_sorted(neighbors(g, u_g), c_v)
         IN  dual_candidates(g, c_u, c_v, k + 1,
                 [ u_g_new |-> IF intersect # << >>
                               THEN Append(acc.u_g_new, u_g) ELSE acc.u_g_new,
                   is_updated |-> acc.is_updated \/ intersect = << >>,
                   v_g_new |-> union_into_sorted(acc.v_g_new, intersect) ])

\* one full pass of the for loops of dual_simulation
RECURSIVE dual_pass(_, _, _, _)
dual_pass(g, edges, k, st) ==
    IF k > Len(edges) THEN st
    ELSE LET u_p == edges[k][1]
             v_p == edges[k][2]
             c_v == st.candidates[v_p + 1]
             acc == dual_candidates(g, st.candidates[u_p + 1], c_v, 1,
                        [ u_g_new |-> << >>, v_g_new |-> << >>,
                          is_updated |-> st.is_updated ])
         IN  IF acc.u_g_new = << >> \/ acc.v_g_new = << >>
             THEN [ candidates |-> st.candidates, is_updated |-> acc.is_updated,
                    returned |-> TRUE ]
             ELSE dual_pass(g, edges, k + 1,
                      [ candidates |->
                            [ [st.candidates EXCEPT
                                  ![v_p + 1] = intersect_sorted(c_v, acc.v_g_new)]
                              EXCEPT ![u_p + 1] = acc.u_g_new ],
                        is_updated |-> acc.is_updated \/ Len(acc.v_g_new) < Len(c_v),
                        returned |-> FALSE ])

\* one iteration of "while is_updated" of the simulation named by a
SimulationPassOf(a, g, p, cands) ==
    LET st0 == [ candidates |-> cands, is_updated |-> FALSE, returned |-> FALSE ]
    IN  IF a = "dual_iso" THEN dual_pass(g, PatternEdges(p), 1, st0)
        ELSE simple_pass(g, PatternEdges(p), 1, st0)

\* simple_simulation run to its return: [ok, candidates]
RECURSIVE simple_simulation(_, _, _)
simple_simulation(g, p, cands) ==
    LET st == SimulationPassOf("simple_iso", g, p, cands)
    IN  IF st.returned THEN [ ok |-> FALSE, candidates |-> st.candidates ]
        ELSE IF st.is_updated THEN simple_simulation(g, p, st.candidates)
        ELSE [ ok |-> TRUE, candidates |-> st.candidates ]

\* any_matched without the comparison: no earlier choice is ever found
any_matched_never(cands, depth, v_g, k) ==
    [ found |-> FALSE, panicked |-> FALSE ]

\* "candidates[..depth].iter().any(|x| x[0] == *v_g)": x[0] of an empty x
\* panics, unless an earlier x has already answered true
RECURSIVE any_matched(_, _, _, _)
any_matched(cands, depth, v_g, k) ==
    IF k > depth THEN [ found |-> FALSE, panicked |-> FALSE ]
    ELSE IF cands[k] = << >> THEN [ found |-> FALSE, panicked |-> TRUE ]
    ELSE IF cands[k][1] = v_g THEN [ found |-> TRUE, panicked |-> FALSE ]
    ELSE any_matched(cands, depth, v_g, k + 1)

\* search: res holds matches, whether an index was out of bounds, and the
\* invocations of search made so far (the candidates and depth of each)
RECURSIVE search(_, _, _, _, _)
RECURSIVE search_loop(_, _, _, _, _, _)
search(g, p, res, cands, depth) ==
    IF res.panicked THEN res
    ELSE LET entered == [ res EXCEPT !.calls =
                              @ \cup {[ candidates |-> cands, depth |-> depth ]} ]
         IN  IF depth = p.node_count
             THEN IF \E k \in 1..Len(cands) : cands[k] = << >>
                  THEN [ entered EXCEPT !.panicked = TRUE ]
                  ELSE [ entered EXCEPT !.matches =
                             Append(@, Pushed([ k \in 1..Len(cands) |-> cands[k][1] ],
                                              Len(cands))) ]
             ELSE search_loop(g, p, entered, cands, depth, 1)

\* search_loop without "new_candidates[depth] = vec![*v_g]": the choice of
\* v_g is not fixed in the candidates handed on
search_loop_unfixed(g, p, res, cands, depth, k) ==
    IF res.panicked \/ k > Len(cands[depth + 1]) THEN res
    ELSE LET v_g == cands[depth + 1][k]
             seen == any_matched(cands, depth, v_g, 1)
             sim == simple_simulation(g, p, cands)
         IN  IF seen.panicked THEN [ res EXCEPT !.panicked = TRUE ]
             ELSE IF seen.found \/ ~sim.ok
             THEN search_loop(g, p, res, cands, depth, k + 1)
             ELSE search_loop(g, p, search(g, p, res, sim.candidates, depth + 1),
                              cands, depth, k + 1)

\* the loop "for v_g in candidates[depth]" from the k-th candidate on
search_loop(g, p, res, cands, depth, k) ==
    IF res.panicked \/ k > Len(cands[depth + 1]) THEN res
    ELSE LET v_g == cands[depth + 1][k]
             seen == any_matched(cands, depth, v_g, 1)
             new_candidates == [cands EXCEPT ![depth + 1] = << v_g >>]
             sim == simple_simulation(g, p, new_candidates)
         IN  IF seen.panicked THEN [ res EXCEPT !.panicked = TRUE ]
             ELSE IF seen.found \/ ~sim.ok
             THEN search_loop(g, p, res, cands, depth, k + 1)
             ELSE search_loop(g, p, search(g, p, res, sim.candidates, depth + 1),
                              cands, depth, k + 1)

----------------------------------------------------------------------------
(* A query as a state machine.  The graph is one that build() returns on a *)
(* freshly staged builder; Query is the call of simple_iso or dual_iso     *)
(* with a pattern up to init_candidates, SimulationPass one iteration of   *)
(* the while loop of the simulation the entry point calls, Search the call *)
(* of search and the return of the entry point.                            *)

\* bounds of the graphs and patterns of the queries
MaxGraphNodes == 3
MaxGraphRels == 3
MaxPatternNodes == 2
MaxPatternRels == 2
\* cap of the iterations of "while is_updated" followed in one simulation: a
\* simulation that shrinks a set in every iteration makes at most
\* MaxGraphNodes * MaxSimPatternNodes + 1 of them
MaxPasses == 12

\* the staged adjacency lists that hold the relationships of the set edges
StagedAdjacency(edges) ==
    [ s \in { e[1] : e \in edges } |->
          AscendingOrder({ e[2] : e \in { d \in edges : d[1] = s } }) ]

\* the graphs build() returns after add_node for the ids 0..n-1 and
\* add_relationship for a set of at most max_rels relationships, with every
\* iteration order of the node map (any_order) or the ascending one only
StagedGraphs(max_nodes, max_rels, labels, any_order) ==
    UNION { UNION { UNION {
        { build(n, Cardinality(edges), node_label_of, StagedAdjacency(edges),
                AscendingOrder(DOMAIN StagedAdjacency(edges)), label_order) :
              label_order \in IF any_order THEN IterationOrders(0..(n - 1))
                                            ELSE { AscendingOrder(0..(n - 1)) } } :
          edges \in { es \in SUBSET ((0..(n - 1)) \X (0..(n - 1))) :
                          Cardinality(es) <= max_rels } } :
        node_label_of \in [0..(n - 1) -> labels] } :
      n \in 0..max_nodes }

\* The data graphs: every iteration order of the node map.  (The order of
\* the staged adjacency map only permutes the blocks of lists; neighbors
\* and degree do not depend on it.)
Graphs(max_rels, labels) ==
    StagedGraphs(MaxGraphNodes, max_rels, labels, TRUE)

\* The patterns.  A query reads node_count, node_label and neighbors of the
\* pattern and never its label index.
Patterns(max_nodes, labels) ==
    StagedGraphs(max_nodes, MaxPatternRels, labels, FALSE)

Algorithms == {"simple_iso", "dual_iso"}

IsoInit ==
    /\ graph \in Graphs(MaxGraphRels, Labels)
    /\ pattern = build(0, 0, EmptyMap, EmptyMap, << >>, << >>)
    /\ algo = "none"
    /\ pc = "idle"
    /\ candidates = << >>
    /\ sim_result = FALSE
    /\ matches = << >>
    /\ passes = 0
    /\ BuilderIdle
    /\ SetIdle

\* simple_iso(graph, p) / dual_iso(graph, p) up to init_candidates
Query(a, p) ==
    /\ pc = "idle"
    /\ algo' = a
    /\ pattern' = p
    /\ IF init_candidates_panics(graph, p)
       THEN /\ pc' = "panicked"
            /\ UNCHANGED candidates
       ELSE /\ pc' = "simulate"
            /\ candidates' = init_candidates(graph, p)
    /\ passes' = 0
    /\ UNCHANGED << graph, sim_result, matches >>
    /\ UNCHANGED << builder_vars, set_vars >>

\* one iteration of the while loop of simple_simulation / dual_simulation
\* and the test of the loop after it; the returned bool is sim_result
SimulationPass ==
    /\ pc = "simulate"
    /\ passes < MaxPasses
    /\ passes' = passes + 1
    /\ LET st == SimulationPassOf(algo, graph, pattern, candidates)
       IN  /\ candidates' = st.candidates
           /\ IF st.returned
              THEN sim_result' = FALSE /\ pc' = "search"
              ELSE IF st.is_updated
              THEN UNCHANGED << sim_result, pc >>
              ELSE sim_result' = TRUE /\ pc' = "search"
    /\ UNCHANGED << graph, pattern, algo, matches >>
    /\ UNCHANGED << builder_vars, set_vars >>

\* search(graph, pattern, &mut matches, &initial_candidates, 0); matches.
\* The entry points do not read the bool the simulation returned.
Search ==
    /\ pc = "search"
    /\ LET res == search(graph, pattern,
                         [ matches |-> << >>, panicked |-> FALSE, calls |-> {} ], candidates, 0)
       IN  /\ matches' = res.matches
           /\ pc' = IF res.panicked THEN "panicked" ELSE "done"
    /\ UNCHANGED << graph, pattern, algo, candidates, sim_result, passes >>
    /\ UNCHANGED << builder_vars, set_vars >>

IsoNext ==
    \/ /\ pc = "idle"
       /\ \E a \in Algorithms, p \in Patterns(MaxPatternNodes, Labels) :
              Query(a, p)
    \/ SimulationPass
    \/ Search

SpecIso == IsoInit /\ [][IsoNext]_vars

----------------------------------------------------------------------------
(* The simulations alone, on single-label graphs and patterns of up to     *)
(* MaxSimPatternNodes nodes: Query and SimulationPass up to the return of  *)
(* the simulation.                                                         *)

MaxSimGraphRels == 4
MaxSimPatternNodes == 3

SimInit ==
    /\ graph \in Graphs(MaxSimGraphRels, {"a"})
    /\ pattern = build(0, 0, EmptyMap, EmptyMap, << >>, << >>)
    /\ algo = "none"
    /\ pc = "idle"
    /\ candidates = << >>
    /\ sim_result = FALSE
    /\ matches = << >>
    /\ passes = 0
    /\ BuilderIdle
    /\ SetIdle

SimNext ==
    \/ /\ pc = "idle"
       /\ \E a \in Algorithms, p \in Patterns(MaxSimPatternNodes, {"a"}) :
              Query(a, p)
    \/ SimulationPass

SpecSim == SimInit /\ [][SimNext]_vars

\* simple_iso(g, p) run to its return (it reads no bool of the simulation):
\* the matches it returns
simple_iso(g, p) ==
    LET sim == simple_simulation(g, p, init_candidates(g, p))
    IN  search(g, p, [ matches |-> << >>, panicked |-> FALSE, calls |-> {} ],
               sim.candidates, 0).matches

----------------------------------------------------------------------------
(* Properties *)

\* M is a match of pattern p in graph g: one entry per pattern node, every
\* pattern edge mapped on a graph edge, injective, labels preserved
IsMatch(g, p, M) ==
    /\ Len(M) = p.node_count
    /\ \A u \in 0..(p.node_count - 1) :
           \A k \in 1..degree(p, u) :
               M[neighbors(p, u)[k] + 1] \in Range(neighbors(g, M[u + 1]))
    /\ \A u, v \in 1..Len(M) : M[u] = M[v] => u = v
    /\ \A u \in 0..(p.node_count - 1) :
           node_label(g, M[u + 1]) = node_label(p, u)

\* the assignments of a graph node to every pattern node
Assignments(g, p) == [1..p.node_count -> 0..(g.node_count - 1)]

\* the number of positions of the sequence s that hold x
Occurrences(s, x) == Cardinality({ k \in 1..Len(s) : s[k] = x })

\* every list of the label index of g is ascending
LabelIndexSorted(g) ==
    \A label \in DOMAIN g.label_idx : IsAscending(g.label_idx[label])

\* C1 (soundness): every match that simple_iso or dual_iso returns has one
\* entry per pattern node, maps every pattern edge on a graph edge, is
\* injective and preserves the labels, whatever the order of the lists of
\* the label index.
C1_Soundness ==
    pc = "done" =>
        \A k \in 1..Len(matches) : IsMatch(graph, pattern, matches[k])

\* a query on a graph whose label index is not ascending has returned a
\* match of a pattern with two nodes and a relationship
C1_Witness ==
    /\ pc = "done"
    /\ matches # << >>
    /\ pattern.node_count = 2
    /\ pattern.relationship_count > 0
    /\ ~LabelIndexSorted(graph)

\* C2 (equivalence): dual_iso returns the same set of matches as simple_iso
\* on the same graph and pattern.
C2_SameMatchSet ==
    (pc = "done" /\ algo = "dual_iso") =>
        Range(matches) = Range(simple_iso(graph, pattern))

\* C3 (completeness): every injective, label-preserving, edge-preserving
\* assignment occurs exactly once in the sequence simple_iso returns.
C3_Complete ==
    (pc = "done" /\ algo = "simple_iso") =>
        \A M \in Assignments(graph, pattern) :
            IsMatch(graph, pattern, M) => Occurrences(matches, M) = 1

\* C4 (sortedness): in every Graph build() returns, every neighbor list is
\* ascending and every list of the label index strictly ascending.
C4_Sorted ==
    built # << >> =>
        /\ \A n \in 0..(built[1].node_count - 1) :
               IsAscending(neighbors(built[1], n))
        /\ \A label \in DOMAIN built[1].label_idx :
               IsStrictlyAscending(built[1].label_idx[label])

\* the pattern of the query has a node whose label no graph node carries
HasUnusedLabel ==
    \E u \in 0..(pattern.node_count - 1) :
        \A n \in 0..(graph.node_count - 1) :
            node_label(graph, n) # node_label(pattern, u)

\* C5 (infeasible label): a query whose pattern has a label that no graph
\* node carries raises no fatal error and returns no match.
C5_InfeasibleLabel ==
    (pc # "idle" /\ HasUnusedLabel) =>
        /\ pc # "panicked"
        /\ pc = "done" => matches = << >>

\* C6 (short-circuit): when the initial simulation of the entry point has
\* returned false, the entry point returns no match.
C6_ShortCircuit ==
    (pc = "done" /\ ~sim_result) => matches = << >>

\* C7 (union): for strictly ascending a and b, union_into_sorted leaves a
\* strictly ascending and holding exactly the elements of a and of b.
C7_Union ==
    ( /\ set_call.op = "union_into_sorted"
      /\ IsStrictlyAscending(left)
      /\ IsStrictlyAscending(right) ) =>
        /\ IsStrictlyAscending(set_call.result)
        /\ Range(set_call.result) = Range(left) \cup Range(right)

\* C8 (intersection): for ascending a and b, repeats allowed, the result of
\* intersect_sorted is strictly ascending and holds exactly the values that
\* occur in both, and do_intersect_sorted is true exactly when it is not
\* empty.
C8_Intersect ==
    set_call.op = "intersect_sorted" =>
        /\ IsStrictlyAscending(set_call.result)
        /\ Range(set_call.result) = Range(left) \cap Range(right)
        /\ do_intersect_sorted(left, right) <=> set_call.result # << >>

\* C9 (idempotence): when the simulation has returned true, running it again
\* on the candidates it left returns true and changes no candidate set.  The
\* first pass of the second run decides it: the run returns true without a
\* change exactly when that pass neither returns false, nor sets is_updated,
\* nor changes a set (no later pass gives a set back what a pass took, and a
\* pass that sets is_updated without a change repeats for ever).
C9_Idempotent ==
    (pc = "search" /\ sim_result) =>
        LET st == SimulationPassOf(algo, graph, pattern, candidates)
        IN  /\ ~st.returned
            /\ ~st.is_updated
            /\ st.candidates = candidates

\* C10 (staging preconditions): add_node panics exactly when the id is above
\* the builder's node count, add_relationship exactly when an endpoint is not
\* in the builder's node map; a panicking call changes nothing in the builder,
\* and add_node of an id in the node map succeeds and keeps label and count.
C10_StagingPreconditions ==
    [][ /\ last_call'.op = "add_node" =>
            /\ last_call'.panicked <=> last_call'.node_id > node_count
            /\ last_call'.panicked =>
                   UNCHANGED << node_count, relationship_count, node_labels,
                                adjacency_lists >>
            /\ last_call'.node_id \in DOMAIN node_labels =>
                   /\ ~last_call'.panicked
                   /\ UNCHANGED << node_count, node_labels >>
        /\ last_call'.op = "add_relationship" =>
            /\ last_call'.panicked <=>
                   \/ last_call'.start_node \notin DOMAIN node_labels
                   \/ last_call'.end_node \notin DOMAIN node_labels
            /\ last_call'.panicked =>
                   UNCHANGED << node_count, relationship_count, node_labels,
                                adjacency_lists >>
      ]_vars

\* add_node of an id already in the node map, with another label, has
\* succeeded, and the node map still holds the first label
C10_Witness ==
    /\ last_call.op = "add_node"
    /\ ~last_call.panicked
    /\ last_call.node_id \in DOMAIN node_labels
    /\ node_labels[last_call.node_id] # last_call.node_label

\* the total number of candidates over all pattern nodes
RECURSIVE TotalCandidates(_)
TotalCandidates(cands) ==
    IF cands = << >> THEN 0
    ELSE Len(Head(cands)) + TotalCandidates(Tail(cands))

\* C11 (termination by a decreasing potential): an iteration of the loop of
\* simple_simulation or dual_simulation gives no candidate set an element it
\* did not hold, and an iteration that asks for another one (is_updated set,
\* no return) has strictly decreased the total number of candidates; so the
\* loop makes at most as many iterations as there are candidates, plus one.
C11_DecreasingPotential ==
    [][ (pc = "simulate" /\ passes' = passes + 1) =>
            /\ \A k \in 1..Len(candidates) :
                   Range(candidates'[k]) \subseteq Range(candidates[k])
            /\ pc' = "simulate" =>
                   TotalCandidates(candidates') < TotalCandidates(candidates)
      ]_vars

\* search(graph, pattern, ..., candidates, 0) as the entry point calls it
\* with the candidates the initial simulation left
SearchOfQuery ==
    search(graph, pattern, [ matches |-> << >>, panicked |-> FALSE, calls |-> {} ],
           candidates, 0)

\* C12 (search state): in every invocation of search made by a query, at
\* depth d, there is one candidate set per pattern node, every candidate set
\* is non-empty and every set at an index below d holds exactly one graph
\* node; no read of element 0 is out of bounds.
C12_SearchState ==
    pc \in {"search", "done"} =>
        /\ ~SearchOfQuery.panicked
        /\ \A call \in SearchOfQuery.calls :
               /\ Len(call.candidates) = pattern.node_count
               /\ \A k \in 1..Len(call.candidates) : call.candidates[k] # << >>
               /\ \A k \in 1..call.depth : Len(call.candidates[k]) = 1

\* a dual_iso query with a pattern of two nodes has returned a match, and
\* search was invoked at depth 1 with more than one candidate left for the
\* second pattern node
C12_Witness ==
    /\ pc = "done"
    /\ algo = "dual_iso"
    /\ pattern.node_count = 2
    /\ matches # << >>
    /\ \E call \in SearchOfQuery.calls :
           call.depth = 1 /\ Len(call.candidates[2]) > 1

\* the sum of degree(n) over the nodes n, n + 1, ... of g
RECURSIVE DegreeSum(_, _)
DegreeSum(g, n) ==
    IF n >= g.node_count THEN 0 ELSE degree(g, n) + DegreeSum(g, n + 1)

\* C13 (graph consistency): in every Graph build() returns, after any
\* sequence of add_node, add_relationship and earlier build() calls on the
\* builder, node_label(n) returns a label for every n below node_count, and
\* relationship_count is the sum of degree(n) over all nodes n.
C13_GraphConsistent ==
    built # << >> =>
        /\ \A n \in 0..(built[1].node_count - 1) : ~node_label_panics(built[1], n)
        /\ built[1].relationship_count = DegreeSum(built[1], 0)

====
